---- MODULE Spec2Model ----
(***************************************************************************)
(* Type Explorer: the tree data provider (TypeExplorerProvider.ts) and the *)
(* commands registered on activation (extension.ts).                       *)
(*                                                                         *)
(* Text is a sequence of tokens.  A token is a maximal run of characters   *)
(* of one class, which is the unit the source's regular expressions tell   *)
(* apart: w a run of \w characters, i an identifier that holds a           *)
(* character outside \w (such as $), s a run of white space, p one         *)
(* punctuation character, q a quoted string (v is what stands between      *)
(* the quotes).  A regular expression is modelled by a matcher over the    *)
(* tokens that follows its pattern element by element.                     *)
(***************************************************************************)
EXTENDS Integers, Sequences, FiniteSets, TLC

VARIABLES
    docs,             \* uri -> the statements of that text document
    activeTextEditor, \* vscode.window.activeTextEditor: a uri or NoEditor
    manualPackages,   \* TypeExplorerProvider.manualPackages
    memberCache,      \* TypeExplorerProvider.memberCache: modulePath -> members
    call,             \* the getChildren(module node) call in flight, where it waits
    fired,            \* tree-change events fired by the last handler that ran
    op,               \* the last handler that ran
    rootChildren,     \* what the last handler returned, if it was getChildren()
    returned,         \* the last getChildren(module node) call that returned
    before,           \* the call that returned before it, if nothing refreshed since
    added,            \* the package names addPackage was called with
    docPanel,         \* extension.ts docPanel: the documentation panel, if open
    argument,         \* what type-explorer.showDocumentation was last invoked with
    workspaceFolders, \* vscode.workspace.workspaceFolders and their package.json
    reading,          \* the getInstalledPackages call in flight, where it waits
    installed         \* what the last getInstalledPackages call returned

provider ==
    <<docs, activeTextEditor, manualPackages, memberCache, call, fired, op,
      rootChildren, returned, before, added>>

\* the provider's variables but op
tree ==
    <<docs, activeTextEditor, manualPackages, memberCache, call, fired,
      rootChildren, returned, before, added>>

panel == <<docPanel, argument>>

packages == <<workspaceFolders, reading, installed>>

vars == <<provider, panel, packages>>

----------------------------------------------------------------------------
(* Tokens *)

W(s) == [k |-> "w", v |-> s]
I(s) == [k |-> "i", v |-> s]
P(s) == [k |-> "p", v |-> s]
Q(s) == [k |-> "q", v |-> s]
SP == [k |-> "s", v |-> " "]
NL == [k |-> "s", v |-> "\n"]
EOF == [k |-> "eof", v |-> ""]

Tok(t, i) == IF i \in 1..Len(t) THEN t[i] ELSE EOF

\* the characters of a token sequence, as one string
RECURSIVE Chars(_)
Chars(t) ==
    IF t = <<>> THEN ""
    ELSE (IF Head(t).k = "q" THEN "'" \o Head(t).v \o "'" ELSE Head(t).v) \o Chars(Tail(t))

\* \s* from position i: the first position at or after i that is not white space
RECURSIVE SkipWs(_, _)
SkipWs(t, i) == IF Tok(t, i).k = "s" THEN SkipWs(t, i + 1) ELSE i

\* String.prototype.indexOf: the first position at or after i holding x, 0 if none
RECURSIVE IndexOf(_, _, _)
IndexOf(t, x, i) ==
    IF i > Len(t) THEN 0 ELSE IF t[i] = x THEN i ELSE IndexOf(t, x, i + 1)

\* String.prototype.trim
RECURSIVE TrimEnd(_)
TrimEnd(t) ==
    IF t # <<>> /\ t[Len(t)].k = "s" THEN TrimEnd(SubSeq(t, 1, Len(t) - 1)) ELSE t

Trim(t) == TrimEnd(SubSeq(t, SkipWs(t, 1), Len(t)))

\* s.split(',')[0]
FirstItem(t) ==
    LET c == IndexOf(t, P(","), 1) IN IF c = 0 THEN t ELSE SubSeq(t, 1, c - 1)

\* s.split(','): the pieces between commas
RECURSIVE SplitComma(_)
SplitComma(t) ==
    LET c == IndexOf(t, P(","), 1)
    IN  IF c = 0 THEN <<t>>
        ELSE <<SubSeq(t, 1, c - 1)>> \o SplitComma(SubSeq(t, c + 1, Len(t)))

\* /\s+as\s+/ at position i: the position after the match, 0 if it does not match
AsAt(t, i) ==
    LET a == SkipWs(t, i)
        b == SkipWs(t, a + 1)
    IN  IF a > i /\ Tok(t, a) = W("as") /\ b > a + 1 THEN b ELSE 0

\* s.split(/\s+as\s+/): the pieces between the matches, scanned left to right
RECURSIVE SplitAs(_, _, _)
SplitAs(t, start, i) ==
    IF i > Len(t) THEN <<SubSeq(t, start, Len(t))>>
    ELSE IF AsAt(t, i) > 0
         THEN <<SubSeq(t, start, i - 1)>> \o SplitAs(t, AsAt(t, i), AsAt(t, i))
         ELSE SplitAs(t, start, i + 1)

\* document.positionAt(offset).line
LineAt(t, i) == Cardinality({j \in 1..(i - 1) : j <= Len(t) /\ t[j] = NL})

----------------------------------------------------------------------------
\* The regular expressions of findImportedModules.  A match is
\* [ok, index, end, word, braces, path]: index is match.index, end the position
\* after the match (lastIndex), word a (\w+) group, braces a ([^}]*) group, path
\* the ([^QT]+) group, where QT stands for the class of the two quote characters.
\* A group that did not take part is empty: the source only tests these groups
\* for truthiness.

NoMatch == [ok |-> FALSE, index |-> 0, end |-> 0, word |-> "", braces |-> <<>>, path |-> ""]

\* \s*from\s*QT([^QT]+)QT  (strict: \s+from\s+QT([^QT]+)QT)
FromClause(t, j, strict) ==
    LET a == SkipWs(t, j)
        b == SkipWs(t, a + 1)
    IN  IF /\ Tok(t, a) = W("from")
           /\ Tok(t, b).k = "q"
           /\ Tok(t, b).v # ""
           /\ (strict => a > j /\ b > a + 1)
        THEN [ok |-> TRUE, end |-> b + 1, path |-> t[b].v]
        ELSE [ok |-> FALSE, end |-> 0, path |-> ""]

\* (?:\{([^}]*)\})?  at position j
BraceGroup(t, j) ==
    LET c == IndexOf(t, P("}"), j + 1)
    IN  IF Tok(t, j) = P("{") /\ c > 0
        THEN [ok |-> TRUE, end |-> c + 1, body |-> SubSeq(t, j + 1, c - 1)]
        ELSE [ok |-> FALSE, end |-> j, body |-> <<>>]

\* (?:\{([^}]*)\})?\s*from\s*QT([^QT]+)QT  at position j
StandardTail(t, i, j, word) ==
    LET br == BraceGroup(t, j)
        fc == FromClause(t, br.end, FALSE)
    IN  IF fc.ok
        THEN [ok |-> TRUE, index |-> i, end |-> fc.end, word |-> word,
              braces |-> br.body, path |-> fc.path]
        ELSE NoMatch

\* /import\s+(?:(\w+)\s*,?\s*)?(?:\{([^}]*)\})?\s*from\s*QT([^QT]+)QT/
standardRegexAt(t, i) ==
    LET j == SkipWs(t, i + 1)
        a == SkipWs(t, j + 1)
        b == IF Tok(t, a) = P(",") THEN SkipWs(t, a + 1) ELSE a
        taken == StandardTail(t, i, b, Tok(t, j).v)
        skipped == StandardTail(t, i, j, "")
    IN  IF Tok(t, i) # W("import") \/ j = i + 1 THEN NoMatch
        ELSE IF Tok(t, j).k = "w" /\ taken.ok THEN taken
        ELSE skipped

\* /import\s+\*\s+as\s+(\w+)\s+from\s+QT([^QT]+)QT/
namespaceRegexAt(t, i) ==
    LET a == SkipWs(t, i + 1)
        b == SkipWs(t, a + 1)
        c == SkipWs(t, b + 1)
        fc == FromClause(t, c + 1, TRUE)
    IN  IF /\ Tok(t, i) = W("import") /\ a > i + 1
           /\ Tok(t, a) = P("*") /\ b > a + 1
           /\ Tok(t, b) = W("as") /\ c > b + 1
           /\ Tok(t, c).k = "w"
           /\ fc.ok
        THEN [ok |-> TRUE, index |-> i, end |-> fc.end, word |-> t[c].v,
              braces |-> <<>>, path |-> fc.path]
        ELSE NoMatch

\* /import\s+type\s+\{([^}]*)\}\s+from\s+QT([^QT]+)QT/
typeRegexAt(t, i) ==
    LET a == SkipWs(t, i + 1)
        b == SkipWs(t, a + 1)
        br == BraceGroup(t, b)
        fc == FromClause(t, br.end, TRUE)
    IN  IF /\ Tok(t, i) = W("import") /\ a > i + 1
           /\ Tok(t, a) = W("type") /\ b > a + 1
           /\ br.ok
           /\ fc.ok
        THEN [ok |-> TRUE, index |-> i, end |-> fc.end, word |-> "",
              braces |-> br.body, path |-> fc.path]
        ELSE NoMatch

RegexAt(re, t, i) ==
    CASE re = "standard" -> standardRegexAt(t, i)
      [] re = "namespace" -> namespaceRegexAt(t, i)
      [] re = "type" -> typeRegexAt(t, i)

\* while ((match = regex.exec(text)) !== null): the matches of a /g regex from
\* position i on, each search starting where the last match ended
RECURSIVE ExecAll(_, _, _)
ExecAll(re, t, i) ==
    IF i > Len(t) THEN <<>>
    ELSE LET m == RegexAt(re, t, i)
         IN  IF m.ok THEN <<m>> \o ExecAll(re, t, m.end) ELSE ExecAll(re, t, i + 1)

----------------------------------------------------------------------------
(* Map<string, ImportNode>: the entries in insertion order, keyed by       *)
(* modulePath (every entry is stored under its own modulePath).            *)

MapHas(m, key) == \E i \in 1..Len(m) : m[i].modulePath = key

MapSetAppend(m, node) == Append(m, node)

MapSet(m, node) ==
    IF MapHas(m, node.modulePath)
    THEN [i \in 1..Len(m) |-> IF m[i].modulePath = node.modulePath THEN node ELSE m[i]]
    ELSE Append(m, node)

ImportNode(name, modulePath, isNamespace, uri, line) ==
    [kind |-> "import", name |-> name, modulePath |-> modulePath,
     isNamespace |-> isNamespace, isManuallyAdded |-> FALSE,
     location |-> [uri |-> uri, line |-> line]]

\* namedImports.split(',')[0].trim().split(/\s+as\s+/).pop()?.trim()
FirstName(braces) ==
    LET pieces == SplitAs(Trim(FirstItem(braces)), 1, 1)
    IN  Chars(Trim(pieces[Len(pieces)]))

\* x || y on strings
OrElse(x, y) == IF x # "" THEN x ELSE y

\* the standard-import loop
RECURSIVE StandardLoop(_, _, _, _)
StandardLoop(ms, t, uri, modules) ==
    IF ms = <<>> THEN modules
    ELSE LET match == Head(ms)
             importName ==
                 OrElse(match.word,
                        IF match.braces # <<>> THEN FirstName(match.braces) ELSE match.path)
             node == ImportNode(OrElse(importName, match.path), match.path, FALSE,
                                uri, LineAt(t, match.index))
         IN  StandardLoop(Tail(ms), t, uri,
                          IF ~MapHas(modules, match.path) THEN MapSet(modules, node)
                          ELSE modules)

\* the namespace-import loop
RECURSIVE NamespaceLoop(_, _, _, _)
NamespaceLoop(ms, t, uri, modules) ==
    IF ms = <<>> THEN modules
    ELSE LET match == Head(ms)
             node == ImportNode(match.word, match.path, TRUE, uri, LineAt(t, match.index))
         IN  NamespaceLoop(Tail(ms), t, uri, MapSet(modules, node))

\* the type-import loop
RECURSIVE TypeLoop(_, _, _, _)
TypeLoop(ms, t, uri, modules) ==
    IF ms = <<>> THEN modules
    ELSE LET match == Head(ms)
             firstName == FirstName(match.braces)
             node == ImportNode(OrElse(firstName, match.path), match.path, FALSE,
                                uri, LineAt(t, match.index))
         IN  TypeLoop(Tail(ms), t, uri,
                      IF ~MapHas(modules, match.path) THEN MapSet(modules, node)
                      ELSE modules)

\* the manually browsed packages that are not already imported
RECURSIVE ManualLoop(_, _)
ManualLoop(pkgs, modules) ==
    IF pkgs = <<>> THEN modules
    ELSE ManualLoop(Tail(pkgs),
                    IF ~MapHas(modules, Head(pkgs).modulePath)
                    THEN MapSet(modules, Head(pkgs))
                    ELSE modules)

NoEditor == "none"

\* document.getText(): the statements of a document, one per line
RECURSIVE getText(_)
getText(stmts) ==
    IF stmts = <<>> THEN <<>>
    ELSE IF Len(stmts) = 1 THEN Head(stmts).toks
    ELSE Head(stmts).toks \o <<NL>> \o getText(Tail(stmts))

findImportedModules(editor, documents, manual) ==
    IF editor = NoEditor THEN <<>>
    ELSE LET text == getText(documents[editor])
             m1 == StandardLoop(ExecAll("standard", text, 1), text, editor, <<>>)
             m2 == NamespaceLoop(ExecAll("namespace", text, 1), text, editor, m1)
             m3 == TypeLoop(ExecAll("type", text, 1), text, editor, m2)
         IN  ManualLoop(manual, m3)

----------------------------------------------------------------------------
(* The statements a document is made of.  A statement carries its form    *)
(* (what the language's grammar says it is), the module path it imports   *)
(* and its tokens.                                                         *)

\* the local names a brace list binds: the last identifier of each entry
LocalNames(names) ==
    LET pieces == SplitComma(names)
    IN  { Trim(pieces[i])[Len(Trim(pieces[i]))].v :
            i \in { j \in 1..Len(pieces) : Trim(pieces[j]) # <<>> } }

Stmt(form, path, binds, toks) ==
    [form |-> form, path |-> path, binds |-> binds, toks |-> toks]

\* import X from 'm'
DefaultImport(x, m) ==
    Stmt("default", m, {x.v}, <<W("import"), SP, x, SP, W("from"), SP, Q(m)>>)

\* import { A } from 'm'
NamedImport(names, m) ==
    Stmt("named", m, LocalNames(names),
         <<W("import"), SP, P("{")>> \o names \o <<P("}"), SP, W("from"), SP, Q(m)>>)

\* import{A}from'm': the same declaration written without white space
TightNamedImport(names, m) ==
    Stmt("named", m, LocalNames(names),
         <<W("import"), P("{")>> \o Trim(names) \o <<P("}"), W("from"), Q(m)>>)

\* import X, { A } from 'm'
DefaultNamedImport(x, names, m) ==
    Stmt("defaultNamed", m, {x.v} \cup LocalNames(names),
         <<W("import"), SP, x, P(","), SP, P("{")>> \o names
             \o <<P("}"), SP, W("from"), SP, Q(m)>>)

\* import * as X from 'm'
NamespaceImport(x, m) ==
    Stmt("namespace", m, {x.v},
         <<W("import"), SP, P("*"), SP, W("as"), SP, x, SP, W("from"), SP, Q(m)>>)

\* import type { A } from 'm'
TypeImport(names, m) ==
    Stmt("type", m, LocalNames(names),
         <<W("import"), SP, W("type"), SP, P("{")>> \o names
             \o <<P("}"), SP, W("from"), SP, Q(m)>>)

\* import 'm'
BareImport(m) == Stmt("bare", m, {}, <<W("import"), SP, Q(m)>>)

\* x.prop: an expression that reads a property of x
Usage(x, prop) == Stmt("expression", "", {}, <<x, P("."), W(prop)>>)

Paths == {"m", "n"}

DocIds == {"d1", "d2"}

\* the brace lists written in the statements:  {}, { A }, { A as B, C }
BraceLists ==
    { <<>>,
      <<SP, W("A"), SP>>,
      <<SP, W("A"), SP, W("as"), SP, W("B"), P(","), SP, W("C"), SP>> }

\* the identifiers bound by the statements: a word and one that is not a word
Identifiers == {W("X"), I("$")}

ScanStatements ==
    UNION { { DefaultImport(x, m) : x \in Identifiers }
            \cup { NamedImport(b, m) : b \in BraceLists }
            \cup { TightNamedImport(<<SP, W("A"), SP>>, m) }
            \cup { DefaultNamedImport(W("X"), <<SP, W("A"), SP>>, m) }
            \cup { NamespaceImport(x, m) : x \in {W("Y")} }
            \cup { TypeImport(b, m) : b \in BraceLists }
            \cup { BareImport(m) }
          : m \in Paths }
    \cup { Usage(W("Y"), "f") }

MaxStatements == 2

SeqsUpTo(S, n) == UNION { [1..k -> S] : k \in 0..n }

\* addPackage: the entry pushed for a package
ManualNode(packageName) ==
    [kind |-> "import", name |-> packageName, modulePath |-> packageName,
     isNamespace |-> TRUE, isManuallyAdded |-> TRUE,
     location |-> [uri |-> "", line |-> 0]]

\* the values manualPackages takes: addPackage never stores a path twice
ManualLists ==
    { [i \in 1..Len(s) |-> ManualNode(s[i])] :
        s \in { q \in SeqsUpTo(Paths, Cardinality(Paths)) :
                  \A i, j \in 1..Len(q) : i # j => q[i] # q[j] } }

----------------------------------------------------------------------------
(* What the host's language-analysis commands return.  A command returns   *)
(* undefined or a list; a call may also throw.                             *)

Undefined == [def |-> FALSE, list |-> <<>>]

Listed(l) == [def |-> TRUE, list |-> l]

\* the uri of a declaration file of a package
Lib == "lib"

\* document.positionAt(offset).character, counted in tokens
RECURSIVE CharacterAt(_, _)
CharacterAt(t, i) ==
    IF i <= 1 \/ Tok(t, i - 1) = NL THEN 0 ELSE 1 + CharacterAt(t, i - 1)

\* the module path a line of a document is about: the path of the import
\* declaration on that line, or for an expression the path of the import that
\* binds the identifier it reads; empty when there is none
Denotes(stmts, line) ==
    IF line + 1 \notin 1..Len(stmts) THEN ""
    ELSE LET s == stmts[line + 1]
             binders == { k \in 1..Len(stmts) : s.toks[1].v \in stmts[k].binds }
         IN  IF s.form # "expression" THEN s.path
             ELSE IF binders = {} THEN ""
             ELSE stmts[CHOOSE k \in binders : \A l \in binders : k <= l].path

\* one entry of the record of a call's traffic with the host: a request sent,
\* the response to it, or its failure
Entry(dir, cmd, site, uri, line, character, target, val) ==
    [dir |-> dir, cmd |-> cmd, site |-> site, uri |-> uri, line |-> line,
     character |-> character, trigger |-> "", target |-> target, val |-> val]

Request(cmd, site, uri, line, character, target) ==
    Entry("request", cmd, site, uri, line, character, target, Undefined)

Response(cmd, site, val) == Entry("response", cmd, site, "", 0, 0, "", val)

Thrown(cmd, site) == Entry("thrown", cmd, site, "", 0, 0, "", Undefined)

----------------------------------------------------------------------------
(* getChildren(element) for a module node: getModuleExports.  The call runs *)
(* up to its next await in one step; call holds where it waits.            *)

NoNode == ImportNode("", "", FALSE, "", 0)

\* hit and entry record what memberCache held for the node when the call began
Idle ==
    [pc |-> "idle", node |-> NoNode, doc |-> "", items |-> <<>>, members |-> <<>>,
     imported |-> <<>>, defUri |-> "", symbols |-> <<>>, log |-> <<>>,
     hit |-> FALSE, entry |-> <<>>]

\* the outcome of running a call up to its next await or its return; store says
\* that memberCache.set(modulePath, members) was executed
Step(c, done, members, store) ==
    [call |-> c, done |-> done, members |-> members, store |-> store, error |-> FALSE]

Await(c, pc, req) ==
    Step([c EXCEPT !.pc = pc, !.log = Append(@, req)], FALSE, <<>>, FALSE)

Return(c, members, store) == Step(c, TRUE, members, store)

MemberNode(name, detail, symbolKind, modulePath, documentation) ==
    [kind |-> "member", name |-> name, detail |-> detail, symbolKind |-> symbolKind,
     modulePath |-> modulePath, documentation |-> documentation]

completionKindToSymbolKind(kind) ==
    IF kind \in {"Method", "Function", "Property", "Field", "Variable", "Class",
                 "Interface", "Module", "Enum", "EnumMember", "Constant",
                 "Constructor", "TypeParameter", "Event"}
    THEN kind
    ELSE "Variable"

\* /import\s*\{([^}]+)\}\s*from\s*QT<modulePath>QT/ at position i; with
\* allowEmpty the brace list is ([^}]*)
importRegexAt(t, i, modulePath, allowEmpty) ==
    LET j == SkipWs(t, i + 1)
        br == BraceGroup(t, j)
        fc == FromClause(t, br.end, FALSE)
    IN  IF /\ Tok(t, i) = W("import")
           /\ br.ok
           /\ (allowEmpty \/ br.body # <<>>)
           /\ fc.ok
           /\ fc.path = modulePath
        THEN [ok |-> TRUE, index |-> i, end |-> fc.end, word |-> "",
              braces |-> br.body, path |-> fc.path]
        ELSE NoMatch

\* /import\s+(\w+)\s*(?:,\s*\{[^}]*\})?\s*from\s*QT<modulePath>QT/ at position i
defaultRegexAt(t, i, modulePath) ==
    LET j == SkipWs(t, i + 1)
        a == SkipWs(t, j + 1)
        br == BraceGroup(t, SkipWs(t, a + 1))
        b == IF Tok(t, a) = P(",") /\ br.ok THEN br.end ELSE a
        fc == FromClause(t, b, FALSE)
    IN  IF /\ Tok(t, i) = W("import") /\ j > i + 1
           /\ Tok(t, j).k = "w"
           /\ fc.ok
           /\ fc.path = modulePath
        THEN [ok |-> TRUE, index |-> i, end |-> fc.end, word |-> t[j].v,
              braces |-> <<>>, path |-> fc.path]
        ELSE NoMatch

\* regex.exec(text) of a regex without /g: the first match
RECURSIVE ExecImport(_, _, _, _)
ExecImport(t, i, modulePath, allowEmpty) ==
    IF i > Len(t) THEN NoMatch
    ELSE IF importRegexAt(t, i, modulePath, allowEmpty).ok
         THEN importRegexAt(t, i, modulePath, allowEmpty)
         ELSE ExecImport(t, i + 1, modulePath, allowEmpty)

RECURSIVE ExecDefault(_, _, _)
ExecDefault(t, i, modulePath) ==
    IF i > Len(t) THEN NoMatch
    ELSE IF defaultRegexAt(t, i, modulePath).ok THEN defaultRegexAt(t, i, modulePath)
         ELSE ExecDefault(t, i + 1, modulePath)

\* the matches of the /g import regex
RECURSIVE ExecAllImport(_, _, _)
ExecAllImport(t, i, modulePath) ==
    LET m == ExecImport(t, i, modulePath, FALSE)
    IN  IF m.ok THEN <<m>> \o ExecAllImport(t, m.end, modulePath) ELSE <<>>

Includes(names, name) == \E i \in 1..Len(names) : names[i] = name

\* for (const item of namedPart.split(',')): the original names, each once
RECURSIVE NamedPartLoop(_, _)
NamedPartLoop(pieces, names) ==
    IF pieces = <<>> THEN names
    ELSE LET trimmed == Trim(Head(pieces))
             originalName == Chars(Trim(SplitAs(trimmed, 1, 1)[1]))
         IN  NamedPartLoop(Tail(pieces),
                           IF trimmed # <<>> /\ originalName # ""
                              /\ ~Includes(names, originalName)
                           THEN Append(names, originalName)
                           ELSE names)

RECURSIVE ImportMatchLoop(_, _)
ImportMatchLoop(ms, names) ==
    IF ms = <<>> THEN names
    ELSE ImportMatchLoop(Tail(ms), NamedPartLoop(SplitComma(Head(ms).braces), names))

getAlreadyImportedNames(text, modulePath) ==
    LET names == ImportMatchLoop(ExecAllImport(text, 1, modulePath), <<>>)
        defaultMatch == ExecDefault(text, 1, modulePath)
    IN  IF defaultMatch.ok /\ ~Includes(names, defaultMatch.word)
        THEN Append(names, defaultMatch.word)
        ELSE names

\* new RegExp(`\\b${name}\\.`, 'g').exec(text): the position of the first
\* word name that a dot follows, 0 if none
RECURSIVE usageRegexExec(_, _, _)
usageRegexExec(t, i, name) ==
    IF i > Len(t) THEN 0
    ELSE IF t[i] = W(name) /\ Tok(t, i + 1) = P(".") THEN i
    ELSE usageRegexExec(t, i + 1, name)

\* getDocumentationForImportedName up to its await: the hover request for the
\* first word name of the document, if there is one
nameRegexExec(text, name) == IndexOf(text, W(name), 1)

HoverRequest(text, uri, name) ==
    Request("hover", "getDocumentationForImportedName", uri,
            LineAt(text, nameRegexExec(text, name)),
            CharacterAt(text, nameRegexExec(text, name)), "")

\* hovers.flatMap(h => h.contents)
RECURSIVE FlatContents(_)
FlatContents(hovers) ==
    IF hovers = <<>> THEN <<>> ELSE Head(hovers).contents \o FlatContents(Tail(hovers))

\* c => typeof c === 'string' ? c : 'value' in c ? c.value : ''
ContentText(c) == IF c.type \in {"string", "marked"} THEN c.value ELSE ""

RECURSIVE Join(_, _)
Join(strs, sep) ==
    IF strs = <<>> THEN ""
    ELSE IF Len(strs) = 1 THEN Head(strs)
    ELSE Head(strs) \o sep \o Join(Tail(strs), sep)

\* the documentation built from a hover response; filtered drops the empty
\* texts before joining.  No documentation (undefined) is the empty string:
\* the source only tests documentation for truthiness.
HoverDocumentation(resp, filtered) ==
    IF ~resp.def \/ resp.list = <<>> THEN ""
    ELSE LET texts == [i \in 1..Len(FlatContents(resp.list)) |->
                           ContentText(FlatContents(resp.list)[i])]
         IN  Join(IF filtered THEN SelectSeq(texts, LAMBDA x : x # "") ELSE texts, "\n\n")

priority(kind) ==
    CASE kind = "Class" -> 0
      [] kind = "Interface" -> 1
      [] kind = "Enum" -> 2
      [] kind = "Function" -> 3
      [] kind = "Constant" -> 4
      [] OTHER -> 5

\* the names of the model in the order of String.prototype.localeCompare
Collation == <<"A", "B", "C", "X", "Y">>

localeCompare(a, b) ==
    (CHOOSE i \in 1..Len(Collation) : Collation[i] = a)
        - (CHOOSE i \in 1..Len(Collation) : Collation[i] = b)

\* the comparator of completionMembers.sort
compareMembers(a, b) ==
    IF priority(a.symbolKind) # priority(b.symbolKind)
    THEN priority(a.symbolKind) - priority(b.symbolKind)
    ELSE localeCompare(a.name, b.name)

\* Array.prototype.sort: stable
RECURSIVE SortMembers(_)
SortMembers(ms) ==
    IF ms = <<>> THEN <<>>
    ELSE LET sorted == SortMembers(SubSeq(ms, 1, Len(ms) - 1))
             x == ms[Len(ms)]
             k == Cardinality({i \in 1..Len(sorted) : compareMembers(sorted[i], x) <= 0})
         IN  SubSeq(sorted, 1, k) \o <<x>> \o SubSeq(sorted, k + 1, Len(sorted))

\* the end of getModuleExports: sort, store in the cache, return
finishCompletion(c) == Return(c, SortMembers(c.members), TRUE)

HasMember(members, name) == \E i \in 1..Len(members) : members[i].name = name

\* the loop over alreadyImported, from the name at the head of c.imported
RECURSIVE addAlreadyImported(_, _)
addAlreadyImported(c, documents) ==
    IF c.imported = <<>> THEN finishCompletion(c)
    ELSE LET name == Head(c.imported)
             text == getText(documents[c.doc])
         IN  IF HasMember(c.members, name)
             THEN addAlreadyImported([c EXCEPT !.imported = Tail(@)], documents)
             ELSE IF nameRegexExec(text, name) > 0
             THEN Await(c, "hoverImported", HoverRequest(text, c.doc, name))
             ELSE addAlreadyImported(
                      [c EXCEPT !.imported = Tail(@),
                                !.members = Append(@, MemberNode(name, "", "Variable",
                                                                 c.node.modulePath, ""))],
                      documents)

MemberOfItem(item, modulePath, documentation) ==
    MemberNode(item.label, item.detail, completionKindToSymbolKind(item.kind),
               modulePath, documentation)

\* processCompletionItems, from the item at the head of c.items
RECURSIVE processCompletionItems(_, _)
processCompletionItems(c, documents) ==
    IF c.items = <<>> THEN addAlreadyImported(c, documents)
    ELSE LET item == Head(c.items)
             text == getText(documents[c.doc])
             pushed(doc) ==
                 [c EXCEPT !.items = Tail(@),
                           !.members = Append(@, MemberOfItem(item, c.node.modulePath, doc))]
         IN  IF item.kind \in {"Keyword", "Snippet", "Text"}
             THEN processCompletionItems([c EXCEPT !.items = Tail(@)], documents)
             ELSE IF item.documentation # ""
             THEN processCompletionItems(pushed(item.documentation), documents)
             ELSE IF nameRegexExec(text, item.label) > 0
             THEN Await(c, "hoverItem", HoverRequest(text, c.doc, item.label))
             ELSE processCompletionItems(pushed(""), documents)

\* getExportsViaDefinition up to its first await
getExportsViaDefinition(c, documents) ==
    Await(c, "definition",
          Request("definition", "getExportsViaDefinition", c.doc,
                  c.node.location.line, 0,
                  Denotes(documents[c.doc], c.node.location.line)))

\* the loop over the symbols, from the symbol at the head of c.symbols
symbolLoop(c) ==
    IF c.symbols = <<>> THEN Return(c, c.members, TRUE)
    ELSE Await(c, "hoverSymbol",
               Request("hover", "getExportsViaDefinition", c.defUri,
                       Head(c.symbols).line, 0, ""))

\* getModuleExports after its cache check, up to its first await
resolveExports(node, editor, documents) ==
    IF editor = NoEditor THEN Return([Idle EXCEPT !.node = node], <<>>, FALSE)
    ELSE LET text == getText(documents[editor])
             c == [Idle EXCEPT !.node = node, !.doc = editor,
                               !.imported = getAlreadyImportedNames(text, node.modulePath)]
             usageMatch == usageRegexExec(text, 1, node.name)
             importMatch == ExecImport(text, 1, node.modulePath, TRUE)
             bracePos == IndexOf(text, P("{"), importMatch.index)
             at(i, trigger) ==
                 Await(c, "completion",
                       [Request("completion", "getModuleExports", editor,
                                LineAt(text, i), CharacterAt(text, i),
                                Denotes(documents[editor], LineAt(text, i)))
                           EXCEPT !.trigger = trigger])
         IN  IF node.isNamespace
             THEN IF usageMatch > 0 THEN at(usageMatch + 2, ".")
                  ELSE getExportsViaDefinition(c, documents)
             ELSE IF importMatch.ok THEN at(bracePos + 1, "")
                  ELSE getExportsViaDefinition(c, documents)

getModuleExportsUncached(node, editor, documents, cache) ==
    resolveExports(node, editor, documents)

\* getModuleExports up to its first await
getModuleExports(node, editor, documents, cache) ==
    IF node.modulePath \in DOMAIN cache
    THEN Return([Idle EXCEPT !.node = node], cache[node.modulePath], FALSE)
    ELSE resolveExports(node, editor, documents)

onCompletionsUndefinedOnly(c, completions, documents) ==
    LET got == [c EXCEPT !.log = Append(@, Response("completion", "getModuleExports",
                                                      completions))]
    IN  IF ~completions.def
        THEN getExportsViaDefinition(got, documents)
        ELSE processCompletionItems([got EXCEPT !.items = completions.list], documents)

\* the completion request has returned
onCompletions(c, completions, documents) ==
    LET got == [c EXCEPT !.log = Append(@, Response("completion", "getModuleExports",
                                                      completions))]
    IN  IF ~completions.def \/ Len(completions.list) = 0
        THEN getExportsViaDefinition(got, documents)
        ELSE processCompletionItems([got EXCEPT !.items = completions.list], documents)

\* the code after an awaited hover: documentation is what the hover gave
afterHover(c, documentation, documents) ==
    CASE c.pc = "hoverItem" ->
           processCompletionItems(
               [c EXCEPT !.items = Tail(@),
                         !.members = Append(@, MemberOfItem(Head(c.items), c.node.modulePath,
                                                            documentation))],
               documents)
      [] c.pc = "hoverImported" ->
           addAlreadyImported(
               [c EXCEPT !.imported = Tail(@),
                         !.members = Append(@, MemberNode(Head(c.imported), "", "Variable",
                                                          c.node.modulePath, documentation))],
               documents)
      [] c.pc = "hoverSymbol" ->
           symbolLoop(
               [c EXCEPT !.symbols = Tail(@),
                         !.members = Append(@, MemberNode(Head(c.symbols).name,
                                                          Head(c.symbols).detail,
                                                          Head(c.symbols).kind,
                                                          c.node.modulePath, documentation))])

\* a hover request has returned
onHovers(c, hovers, documents) ==
    afterHover([c EXCEPT !.log = Append(@, Response("hover", c.log[Len(c.log)].site, hovers))],
               HoverDocumentation(hovers, c.pc # "hoverSymbol"), documents)

\* the definition request has returned
onDefinitions(c, definitions) ==
    LET got == [c EXCEPT !.log = Append(@, Response("definition", "getExportsViaDefinition",
                                                      definitions))]
        def == definitions.list[1]
        defUri == IF "targetUri" \in DOMAIN def THEN def.targetUri ELSE def.uri
    IN  IF ~definitions.def \/ Len(definitions.list) = 0 THEN Return(got, <<>>, FALSE)
        ELSE IF defUri = c.doc THEN Return(got, <<>>, FALSE)
        ELSE Await([got EXCEPT !.defUri = defUri], "symbols",
                   Request("symbols", "getExportsViaDefinition", defUri, 0, 0, ""))

\* an empty list of symbols is stored in the cache too
onSymbolsCachesEmpty(c, symbols) ==
    LET got == [c EXCEPT !.log = Append(@, Response("symbols", "getExportsViaDefinition",
                                                      symbols))]
    IN  IF ~symbols.def \/ Len(symbols.list) = 0 THEN Return(got, <<>>, TRUE)
        ELSE symbolLoop([got EXCEPT !.symbols = symbols.list])

\* the document-symbol request has returned
onSymbols(c, symbols) ==
    LET got == [c EXCEPT !.log = Append(@, Response("symbols", "getExportsViaDefinition",
                                                      symbols))]
    IN  IF ~symbols.def \/ Len(symbols.list) = 0 THEN Return(got, <<>>, FALSE)
        ELSE symbolLoop([got EXCEPT !.symbols = symbols.list])

onErrorUncaught(c, documents) ==
    LET req == c.log[Len(c.log)]
        got == [c EXCEPT !.log = Append(@, Thrown(req.cmd, req.site))]
    IN  IF c.pc \in {"hoverItem", "hoverImported"} THEN afterHover(got, "", documents)
        ELSE [Return(got, <<>>, FALSE) EXCEPT !.error = TRUE]

\* the awaited request has thrown: getDocumentationForImportedName ignores it,
\* getModuleExports and getExportsViaDefinition catch it and return []
onError(c, documents) ==
    LET req == c.log[Len(c.log)]
        got == [c EXCEPT !.log = Append(@, Thrown(req.cmd, req.site))]
    IN  IF c.pc \in {"hoverItem", "hoverImported"} THEN afterHover(got, "", documents)
        ELSE Return(got, <<>>, FALSE)

----------------------------------------------------------------------------
(* The documents and the host's answers of the provider's specification *)

\* the texts the first document takes: empty, a named import, a namespace
\* import with a use of its alias, a default import with a use of a local n
Texts ==
    { <<>>,
      <<NamedImport(<<SP, W("A"), SP>>, "m")>>,
      <<NamespaceImport(W("Y"), "m"), Usage(W("Y"), "f")>>,
      <<DefaultImport(W("X"), "m"), Usage(W("n"), "f")>> }

\* the second document stays empty
TextsOf(d) == IF d = "d1" THEN Texts ELSE { <<>> }

CompletionItem(label, kind, detail, documentation) ==
    [label |-> label, kind |-> kind, detail |-> detail, documentation |-> documentation]

\* no list, an empty list, and a list of a keyword, a function without
\* documentation and a class with documentation
CompletionLists ==
    { Undefined,
      Listed(<<>>),
      Listed(<<CompletionItem("type", "Keyword", "", ""),
               CompletionItem("A", "Function", "f()", ""),
               CompletionItem("B", "Class", "class B", "about B")>>) }

\* no list, an empty list, a Location in a document, a LocationLink to a
\* declaration file
DefinitionLists ==
    { Undefined, Listed(<<>>), Listed(<<[targetUri |-> Lib]>>) }
        \cup { Listed(<<[uri |-> u]>>) : u \in DocIds }

DocumentSymbol(name, detail, kind, line) ==
    [name |-> name, detail |-> detail, kind |-> kind, line |-> line]

SymbolLists ==
    { Undefined,
      Listed(<<>>),
      Listed(<<DocumentSymbol("C", "f()", "Function", 1),
               DocumentSymbol("B", "class B", "Class", 0)>>) }

HoverLists ==
    { Undefined,
      Listed(<<[contents |-> <<[type |-> "marked", value |-> "md"],
                               [type |-> "other", value |-> ""]>>]>>) }

Range(f) == { f[i] : i \in DOMAIN f }

\* the import nodes getChildren() can have handed to the tree view
KnownNodes ==
    UNION { Range(findImportedModules(d, [x \in DocIds |-> t], <<>>)) :
              <<d, t>> \in { <<d, t>> \in DocIds \X Texts : t \in TextsOf(d) } }

----------------------------------------------------------------------------
(* The provider's handlers *)

NoReturn ==
    [valid |-> FALSE, node |-> NoNode, doc |-> "", members |-> <<>>, error |-> FALSE,
     log |-> <<>>, hit |-> FALSE, entry |-> <<>>, stored |-> FALSE]

NoBefore == [valid |-> FALSE, modulePath |-> "", members |-> <<>>, cached |-> FALSE]

\* Map.prototype.set and Map.prototype.delete on memberCache
CachePut(cache, key, members) ==
    [k \in DOMAIN cache \cup {key} |-> IF k = key THEN members ELSE cache[k]]

CacheDelete(cache, key) == [k \in DOMAIN cache \ {key} |-> cache[k]]

\* what getChildren(node) returned, for the outcome r of the step that ended it
Returned(r) ==
    [valid |-> TRUE, node |-> r.call.node, doc |-> r.call.doc, members |-> r.members,
     error |-> r.error, log |-> r.call.log, hit |-> r.call.hit, entry |-> r.call.entry,
     stored |-> r.store]

\* a step of the call in flight: r is the outcome of running it to its next
\* await or to its return
Settle(r) ==
    /\ call' = IF r.done THEN Idle ELSE r.call
    /\ memberCache' =
           IF r.done /\ r.store
           THEN CachePut(memberCache, r.call.node.modulePath, r.members)
           ELSE memberCache
    /\ returned' = IF r.done THEN Returned(r) ELSE returned
    /\ fired' = 0
    /\ rootChildren' = <<>>
    /\ UNCHANGED <<docs, activeTextEditor, manualPackages, before, added>>
    /\ UNCHANGED <<panel, packages>>

\* getChildren() for the tree root
GetChildrenRoot ==
    /\ rootChildren' = findImportedModules(activeTextEditor, docs, manualPackages)
    /\ op' = "getChildrenRoot"
    /\ fired' = 0
    /\ UNCHANGED <<docs, activeTextEditor, manualPackages, memberCache, call,
                   returned, before, added>>
    /\ UNCHANGED <<panel, packages>>

\* the first step of a call, with what memberCache held for its node
Began(r, entries) ==
    [r EXCEPT !.call.hit = entries # <<>>,
              !.call.entry = IF entries # <<>> THEN entries[1] ELSE <<>>]

Start(r) ==
    /\ call' = IF r.done THEN Idle ELSE r.call
    /\ returned' = IF r.done THEN Returned(r) ELSE NoReturn

\* getChildren(node) for a module node the tree view holds
GetChildrenModule(node) ==
    /\ call.pc = "idle"
    /\ Start(Began(getModuleExports(node, activeTextEditor, docs, memberCache),
                   IF node.modulePath \in DOMAIN memberCache
                   THEN <<memberCache[node.modulePath]>> ELSE <<>>))
    /\ before' =
           IF returned.valid
           THEN [valid |-> TRUE, modulePath |-> returned.node.modulePath,
                 members |-> returned.members,
                 cached |-> returned.hit \/ returned.stored]
           ELSE before
    /\ op' = "getChildrenModule"
    /\ fired' = 0
    /\ rootChildren' = <<>>
    /\ UNCHANGED <<docs, activeTextEditor, manualPackages, memberCache, added>>
    /\ UNCHANGED <<panel, packages>>

CompletionReturned(completions) ==
    /\ call.pc = "completion"
    /\ Settle(onCompletions(call, completions, docs))
    /\ op' = "completionReturned"

HoverReturned(hovers) ==
    /\ call.pc \in {"hoverItem", "hoverImported", "hoverSymbol"}
    /\ Settle(onHovers(call, hovers, docs))
    /\ op' = "hoverReturned"

DefinitionReturned(definitions) ==
    /\ call.pc = "definition"
    /\ Settle(onDefinitions(call, definitions))
    /\ op' = "definitionReturned"

SymbolsReturned(symbols) ==
    /\ call.pc = "symbols"
    /\ Settle(onSymbols(call, symbols))
    /\ op' = "symbolsReturned"

RequestThrew ==
    /\ call.pc # "idle"
    /\ Settle(onError(call, docs))
    /\ op' = "requestThrew"

refreshKeepsCache ==
    /\ memberCache' = memberCache
    /\ fired' = 1
    /\ UNCHANGED manualPackages

refreshDropsPackages ==
    /\ memberCache' = <<>>
    /\ fired' = 1
    /\ manualPackages' = <<>>

refresh ==
    /\ memberCache' = <<>>
    /\ fired' = 1
    /\ UNCHANGED manualPackages

\* what every handler but getChildren leaves behind
Forget ==
    /\ rootChildren' = <<>>
    /\ returned' = NoReturn
    /\ before' = NoBefore

\* the type-explorer.refresh command
RefreshCommand ==
    /\ refresh
    /\ op' = "refresh"
    /\ Forget
    /\ UNCHANGED <<docs, activeTextEditor, call, added>>
    /\ UNCHANGED <<panel, packages>>

\* onDidChangeActiveTextEditor
ChangeActiveTextEditor(editor) ==
    /\ editor # activeTextEditor
    /\ activeTextEditor' = editor
    /\ refresh
    /\ op' = "activeEditorChanged"
    /\ Forget
    /\ UNCHANGED <<docs, call, added>>
    /\ UNCHANGED <<panel, packages>>

\* the listener of onDidChangeTextDocument, for a change of document d
onDidChangeTextDocument(d) ==
    IF activeTextEditor = d
    THEN refresh
    ELSE /\ fired' = 0
         /\ UNCHANGED <<memberCache, manualPackages>>

ChangeTextDocument(d, stmts) ==
    /\ stmts # docs[d]
    /\ docs' = [docs EXCEPT ![d] = stmts]
    /\ onDidChangeTextDocument(d)
    /\ op' = IF d = activeTextEditor THEN "activeDocumentChanged" ELSE "otherDocumentChanged"
    /\ rootChildren' = <<>>
    /\ IF d = activeTextEditor
       THEN returned' = NoReturn /\ before' = NoBefore
       ELSE UNCHANGED <<returned, before>>
    /\ UNCHANGED <<activeTextEditor, call, added>>
    /\ UNCHANGED <<panel, packages>>

\* the entry is pushed without looking for one with the same module path
addPackageUnchecked(packageName) ==
    /\ manualPackages' = Append(manualPackages, ManualNode(packageName))
    /\ memberCache' = CacheDelete(memberCache, packageName)
    /\ fired' = 1

addPackage(packageName) ==
    IF \E i \in 1..Len(manualPackages) : manualPackages[i].modulePath = packageName
    THEN /\ fired' = 0
         /\ UNCHANGED <<manualPackages, memberCache>>
    ELSE /\ manualPackages' = Append(manualPackages, ManualNode(packageName))
         /\ memberCache' = CacheDelete(memberCache, packageName)
         /\ fired' = 1

\* the type-explorer.browsePackage command, with the name the user picked or
\* typed; an empty name means the input box was dismissed
BrowsePackage(packageName) ==
    /\ IF packageName # ""
       THEN addPackage(packageName)
       ELSE fired' = 0 /\ UNCHANGED <<manualPackages, memberCache>>
    /\ added' = IF packageName # "" THEN added \cup {packageName} ELSE added
    /\ op' = "browsePackage"
    /\ Forget
    /\ UNCHANGED <<docs, activeTextEditor, call>>
    /\ UNCHANGED <<panel, packages>>

\* no documentation panel is open
NoPanel == [open |-> FALSE, title |-> <<>>, html |-> <<>>]

\* a command invoked without an argument
NoArgument == [kind |-> "undefined"]

NothingShown == docPanel = NoPanel /\ argument = NoArgument

NoReading == [pc |-> "idle", folder |-> 0, packages |-> <<>>]

NoInstalled == [valid |-> FALSE, error |-> FALSE, packages |-> <<>>]

NothingInstalled ==
    /\ workspaceFolders = [def |-> FALSE, list |-> <<>>]
    /\ reading = NoReading
    /\ installed = NoInstalled

Init ==
    /\ docs \in { f \in [DocIds -> Texts] : \A d \in DocIds : f[d] \in TextsOf(d) }
    /\ activeTextEditor \in DocIds \cup {NoEditor}
    /\ manualPackages = <<>>
    /\ memberCache = <<>>
    /\ call = Idle
    /\ fired = 0
    /\ op = "init"
    /\ rootChildren = <<>>
    /\ returned = NoReturn
    /\ before = NoBefore
    /\ added = {}
    /\ NothingShown
    /\ NothingInstalled

Next ==
    \/ GetChildrenRoot
    \/ \E node \in KnownNodes \cup Range(manualPackages) : GetChildrenModule(node)
    \/ \E completions \in CompletionLists : CompletionReturned(completions)
    \/ \E hovers \in HoverLists : HoverReturned(hovers)
    \/ \E definitions \in DefinitionLists : DefinitionReturned(definitions)
    \/ \E symbols \in SymbolLists : SymbolsReturned(symbols)
    \/ RequestThrew
    \/ RefreshCommand
    \/ \E editor \in DocIds \cup {NoEditor} : ChangeActiveTextEditor(editor)
    \/ \E d \in DocIds : \E stmts \in TextsOf(d) : ChangeTextDocument(d, stmts)
    \/ \E packageName \in Paths \cup {""} : BrowsePackage(packageName)

Spec == Init /\ [][Next]_vars

----------------------------------------------------------------------------
(* The import scanner on its own: every document of up to MaxStatements    *)
(* statements, with every list of manual packages.                         *)

InitScan ==
    /\ \E stmts \in SeqsUpTo(ScanStatements, MaxStatements) :
           docs = [d \in DocIds |-> IF d = "d1" THEN stmts ELSE <<>>]
    /\ activeTextEditor \in {"d1", NoEditor}
    /\ manualPackages \in ManualLists
    /\ memberCache = <<>>
    /\ call = Idle
    /\ fired = 0
    /\ op = "init"
    /\ rootChildren = <<>>
    /\ returned = NoReturn
    /\ before = NoBefore
    /\ added = {}
    /\ NothingShown
    /\ NothingInstalled

NextScan == GetChildrenRoot

SpecScan == InitScan /\ [][NextScan]_vars

ModulePaths(nodes) == { nodes[i].modulePath : i \in 1..Len(nodes) }

\* C1: the list returned for the tree root holds at most one module reference
\* per module path
C1_RootDeduplicated ==
    \A i, j \in 1..Len(rootChildren) :
        rootChildren[i].modulePath = rootChildren[j].modulePath => i = j

C1_Witness ==
    /\ op = "getChildrenRoot"
    /\ activeTextEditor = "d1"
    /\ Len(docs["d1"]) = 2
    /\ docs["d1"][1].form = "default" /\ docs["d1"][1].path = "m"
    /\ docs["d1"][2].form = "namespace" /\ docs["d1"][2].path = "m"
    /\ manualPackages = <<ManualNode("m")>>
    /\ Len(rootChildren) = 1
    /\ rootChildren[1].modulePath = "m"
    /\ rootChildren[1].isNamespace

\* C2: after getChildren() for the root, every default, named, namespace or
\* type-only import declaration of the active document has a module reference
\* with its module path in the list, and without an active editor and manual
\* packages the list is empty
C2_EveryImportListed ==
    op = "getChildrenRoot" =>
        /\ activeTextEditor # NoEditor =>
              \A k \in 1..Len(docs[activeTextEditor]) :
                  LET s == docs[activeTextEditor][k]
                  IN  s.form \in {"default", "named", "namespace", "type"}
                          => s.path \in ModulePaths(rootChildren)
        /\ (activeTextEditor = NoEditor /\ manualPackages = <<>>) => rootChildren = <<>>

----------------------------------------------------------------------------
(* Properties of the provider *)

\* the traffic with the host of the call in flight, or of the call that has
\* just returned, and the document that call works on
Log == IF call.pc # "idle" THEN call.log ELSE returned.log

LogDoc == IF call.pc # "idle" THEN call.doc ELSE returned.doc

IsRequest(e, cmd) == e.dir = "request" /\ e.cmd = cmd

IsResponse(e, cmd) == e.dir = "response" /\ e.cmd = cmd

NoneReturned(e) == ~e.val.def \/ e.val.list = <<>>

DefinitionUri(e) ==
    IF "targetUri" \in DOMAIN e.val.list[1] THEN e.val.list[1].targetUri
    ELSE e.val.list[1].uri

HasThrown(log) == \E i \in 1..Len(log) : log[i].dir = "thrown"

\* the completion request that returned nothing is followed by the definition
\* request, and a document-symbol request directly follows a definition
\* response that names another file than the call's document
C3_Order ==
    /\ \A i \in 1..Len(Log) :
          (IsResponse(Log[i], "completion") /\ NoneReturned(Log[i]))
              => (i < Len(Log) /\ IsRequest(Log[i + 1], "definition"))
    /\ \A i \in 1..Len(Log) :
          IsRequest(Log[i], "symbols")
              => /\ i > 2
                 /\ IsRequest(Log[i - 2], "definition")
                 /\ IsResponse(Log[i - 1], "definition")
                 /\ ~NoneReturned(Log[i - 1])
                 /\ DefinitionUri(Log[i - 1]) # LogDoc

\* the members of a returned call are the symbols of the symbol response, one
\* member per symbol
MembersAreSymbols ==
    \A i \in 1..Len(returned.log) :
        IsResponse(returned.log[i], "symbols")
            => LET symbols == returned.log[i].val.list
               IN  /\ Len(returned.members) = Len(symbols)
                   /\ \A k \in 1..Len(symbols) :
                         /\ returned.members[k].name = symbols[k].name
                         /\ returned.members[k].detail = symbols[k].detail
                         /\ returned.members[k].symbolKind = symbols[k].kind
                         /\ returned.members[k].modulePath = returned.node.modulePath

CacheHitAnswers ==
    (returned.valid /\ returned.hit)
        => (returned.members = returned.entry /\ returned.log = <<>>)

\* C4 as stated: a cache entry is returned without any host request, and two
\* successive expansions of one module with no refresh() or addPackage()
\* between them return the same list, the second without any host request
C4_SecondExpansionFromCache ==
    /\ CacheHitAnswers
    /\ (returned.valid /\ before.valid
            /\ before.modulePath = returned.node.modulePath)
           => (returned.members = before.members /\ returned.log = <<>>)

\* C4 amended: a cache entry is returned without any host request, and two
\* successive expansions of one module with no refresh() or addPackage()
\* between them, the first of which returned or stored a cache entry, return
\* the same list, the second without any host request
C4_SecondExpansionOfCachedModule ==
    /\ CacheHitAnswers
    /\ (returned.valid /\ before.valid /\ before.cached
            /\ before.modulePath = returned.node.modulePath)
           => (returned.members = before.members /\ returned.log = <<>>)

C4_Witness ==
    /\ returned.valid /\ returned.hit
    /\ before.valid /\ before.cached
    /\ before.modulePath = returned.node.modulePath
    /\ returned.members # <<>>

\* C5 as stated: when a host request of a call throws, the call returns an
\* empty list and no error reaches the caller
C5_ThrowGivesEmptyList ==
    returned.valid
        => /\ ~returned.error
           /\ HasThrown(returned.log) => returned.members = <<>>

\* C5 amended: no error reaches the caller, and the call returns an empty
\* list when a request of getModuleExports or getExportsViaDefinition throws;
\* a hover request of getDocumentationForImportedName that throws is ignored
C5_ThrowOutsideDocumentationGivesEmptyList ==
    returned.valid
        => /\ ~returned.error
           /\ (\E i \in 1..Len(returned.log) :
                  /\ returned.log[i].dir = "thrown"
                  /\ returned.log[i].site # "getDocumentationForImportedName")
                 => (returned.members = <<>> /\ ~returned.stored)

C5_Witness ==
    /\ returned.valid
    /\ returned.members = <<>>
    /\ \E i \in 1..Len(returned.log) :
          /\ returned.log[i].dir = "thrown"
          /\ returned.log[i].cmd = "hover"
          /\ returned.log[i].site = "getExportsViaDefinition"

\* C6: every package addPackage was called with stays in manualPackages, and
\* getChildren() for the root, with an editor active, returns a node for it
C6_AddedPackagesListed ==
    /\ added \subseteq ModulePaths(manualPackages)
    /\ (op = "getChildrenRoot" /\ activeTextEditor # NoEditor)
           => added \subseteq ModulePaths(rootChildren)

C6_Witness ==
    /\ op = "getChildrenRoot"
    /\ activeTextEditor # NoEditor
    /\ added = Paths
    /\ docs[activeTextEditor] # <<>>
    /\ \E i \in 1..Len(rootChildren) : rootChildren[i].isManuallyAdded
    /\ \E i \in 1..Len(rootChildren) : ~rootChildren[i].isManuallyAdded

Imports(stmts, modulePath) ==
    \E k \in 1..Len(stmts) : stmts[k].form # "expression" /\ stmts[k].path = modulePath

\* C7: while a node added through Browse Package, for a package the active
\* file does not import, is expanded, the completion request and the
\* definition request are sent for a position that designates that package
C7_RequestsDesignatePackage ==
    (/\ op \in {"getChildrenModule", "completionReturned"}
     /\ call.pc \in {"completion", "definition"}
     /\ call.node.isManuallyAdded
     /\ ~Imports(docs[call.doc], call.node.modulePath))
        => call.log[Len(call.log)].target = call.node.modulePath

----------------------------------------------------------------------------
(* getInstalledPackages.  A package name is the sequence of its UTF-16     *)
(* code units, the order Array.prototype.sort compares strings in.         *)

MaxFolders == 2

PackageNames == { <<66>>, <<97>>, <<97, 98>>, <<98>> }

\* Object.keys of the dependency objects a package.json holds
KeyLists == { <<>>, <<<<98>>>>, <<<<98>>, <<97>>>>, <<<<97, 98>>, <<66>>>> }

\* a workspace folder, by what reading and parsing its package.json gives:
\* no file, text that is no JSON, the JSON value null, or an object
Folder(file, dependencies, devDependencies) ==
    [file |-> file, dependencies |-> dependencies, devDependencies |-> devDependencies]

Folders ==
    { Folder(file, Undefined, Undefined) : file \in {"missing", "unparsable", "null"} }
        \cup { Folder("object", dependencies, devDependencies) :
                 dependencies \in {Undefined} \cup { Listed(l) : l \in KeyLists },
                 devDependencies \in {Undefined} \cup { Listed(l) : l \in KeyLists } }

\* < on strings, by code units
RECURSIVE CodeUnitLess(_, _)
CodeUnitLess(x, y) ==
    IF y = <<>> THEN FALSE
    ELSE IF x = <<>> THEN TRUE
    ELSE IF Head(x) # Head(y) THEN Head(x) < Head(y)
    ELSE CodeUnitLess(Tail(x), Tail(y))

RECURSIVE Insert(_, _)
Insert(sorted, x) ==
    IF sorted = <<>> THEN <<x>>
    ELSE IF CodeUnitLess(x, Head(sorted)) THEN <<x>> \o sorted
    ELSE <<Head(sorted)>> \o Insert(Tail(sorted), x)

\* Array.prototype.sort without a comparator
RECURSIVE Sort(_)
Sort(list) ==
    IF list = <<>> THEN <<>> ELSE Insert(Sort(SubSeq(list, 1, Len(list) - 1)), list[Len(list)])

\* the packages pushed, duplicates kept
KeepAll(list) == list

\* [...new Set(packages)]: every value once, in the order of its first occurrence
RECURSIVE NewSet(_)
NewSet(list) ==
    IF list = <<>> THEN <<>>
    ELSE LET front == NewSet(SubSeq(list, 1, Len(list) - 1))
             last == list[Len(list)]
         IN  IF \E i \in 1..Len(front) : front[i] = last THEN front ELSE Append(front, last)

\* the body of the try block for one folder whose package.json was read:
\* JSON.parse throws on text that is no JSON, and reading a property of null
\* throws; the catch block leaves packages as it was
PushKeys(pushed, folder) ==
    IF folder.file # "object" THEN pushed
    ELSE pushed
           \o (IF folder.dependencies.def THEN folder.dependencies.list ELSE <<>>)
           \o (IF folder.devDependencies.def THEN folder.devDependencies.list ELSE <<>>)

\* return [...new Set(packages)].sort()
ReturnInstalled(pushed) ==
    /\ installed' = [valid |-> TRUE, error |-> FALSE, packages |-> Sort(NewSet(pushed))]
    /\ reading' = NoReading

\* the loop goes on to the next folder, or the call returns
NextFolder(pushed) ==
    IF reading.folder = Len(workspaceFolders.list)
    THEN ReturnInstalled(pushed)
    ELSE /\ reading' = [reading EXCEPT !.folder = @ + 1, !.packages = pushed]
         /\ UNCHANGED installed

GetInstalledPackages ==
    /\ reading.pc = "idle"
    /\ IF ~workspaceFolders.def
       THEN /\ installed' = [valid |-> TRUE, error |-> FALSE, packages |-> <<>>]
            /\ UNCHANGED reading
       ELSE IF workspaceFolders.list = <<>>
       THEN ReturnInstalled(<<>>)
       ELSE /\ reading' = [pc |-> "readFile", folder |-> 1, packages |-> <<>>]
            /\ installed' = NoInstalled
    /\ op' = "getInstalledPackages"
    /\ UNCHANGED <<tree, panel, workspaceFolders>>

\* vscode.workspace.fs.readFile has returned the content of package.json
ReadFileReturned ==
    /\ reading.pc = "readFile"
    /\ workspaceFolders.list[reading.folder].file # "missing"
    /\ NextFolder(PushKeys(reading.packages, workspaceFolders.list[reading.folder]))
    /\ op' = "readFileReturned"
    /\ UNCHANGED <<tree, panel, workspaceFolders>>

\* vscode.workspace.fs.readFile has thrown: there is no package.json
ReadFileThrew ==
    /\ reading.pc = "readFile"
    /\ workspaceFolders.list[reading.folder].file = "missing"
    /\ NextFolder(reading.packages)
    /\ op' = "readFileThrew"
    /\ UNCHANGED <<tree, panel, workspaceFolders>>

Quiet ==
    /\ docs = [d \in DocIds |-> <<>>]
    /\ activeTextEditor = NoEditor
    /\ manualPackages = <<>>
    /\ memberCache = <<>>
    /\ call = Idle
    /\ fired = 0
    /\ op = "init"
    /\ rootChildren = <<>>
    /\ returned = NoReturn
    /\ before = NoBefore
    /\ added = {}

InitPackages ==
    /\ Quiet
    /\ NothingShown
    /\ workspaceFolders \in {Undefined} \cup { Listed(l) : l \in SeqsUpTo(Folders, MaxFolders) }
    /\ reading = NoReading
    /\ installed = NoInstalled

NextPackages ==
    \/ GetInstalledPackages
    \/ ReadFileReturned
    \/ ReadFileThrew

SpecPackages == InitPackages /\ [][NextPackages]_vars

\* the keys of dependencies and devDependencies of the folders whose
\* package.json is read and parsed to an object
Keys(object) == IF object.def THEN Range(object.list) ELSE {}

DependencyKeys ==
    UNION { Keys(workspaceFolders.list[i].dependencies)
                \cup Keys(workspaceFolders.list[i].devDependencies) :
              i \in { k \in 1..Len(workspaceFolders.list) :
                        workspaceFolders.list[k].file \notin {"missing", "unparsable"} } }

\* C9: getInstalledPackages does not fail and returns, in ascending order and
\* each once, the keys of dependencies and devDependencies of the package.json
\* of every folder where it is read and parsed; with no workspace folders it
\* returns the empty list
C9_InstalledPackages ==
    installed.valid
        => /\ ~installed.error
           /\ \A i \in 1..Len(installed.packages) - 1 :
                 CodeUnitLess(installed.packages[i], installed.packages[i + 1])
           /\ Range(installed.packages) = DependencyKeys
           /\ ~workspaceFolders.def => installed.packages = <<>>

C9_Witness ==
    /\ installed.valid
    /\ Len(workspaceFolders.list) = 2
    /\ workspaceFolders.list[1].file = "object"
    /\ workspaceFolders.list[1].dependencies = Listed(<<<<98>>, <<97>>>>)
    /\ workspaceFolders.list[1].devDependencies = Listed(<<<<98>>>>)
    /\ workspaceFolders.list[2].file = "unparsable"
    /\ installed.packages = <<<<97>>, <<98>>>>

----------------------------------------------------------------------------
(* The documentation panel (extension.ts).  A string is the sequence of    *)
(* its characters here, so that escapeHtml is computed as the source       *)
(* computes it.                                                            *)

\* String.prototype.replace with a global pattern of one character
RECURSIVE ReplaceAll(_, _, _)
ReplaceAll(str, ch, by) ==
    IF str = <<>> THEN <<>>
    ELSE (IF Head(str) = ch THEN by ELSE <<Head(str)>>) \o ReplaceAll(Tail(str), ch, by)

QUOT == "\""

escapeHtml(str) ==
    ReplaceAll(ReplaceAll(ReplaceAll(ReplaceAll(str,
        "&", <<"&", "a", "m", "p", ";">>),
        "<", <<"&", "l", "t", ";">>),
        ">", <<"&", "g", "t", ";">>),
        QUOT, <<"&", "q", "u", "o", "t", ";">>)

\* JSON.stringify of a string: between quotes, with quote, backslash and line
\* feed escaped
stringify(str) ==
    <<QUOT>>
        \o ReplaceAll(ReplaceAll(ReplaceAll(str,
               "\\", <<"\\", "\\">>),
               QUOT, <<"\\", QUOT>>),
               "\n", <<"\\", "n">>)
        \o <<QUOT>>

\* 'No documentation available.'
NoDocumentation ==
    <<"N", "o", " ", "d", "o", "c", "u", "m", "e", "n", "t", "a", "t", "i", "o", "n",
      " ", "a", "v", "a", "i", "l", "a", "b", "l", "e", ".">>

\* the template literal of getDocumentationHtml, by what it interpolates
getDocumentationHtml(member) ==
    LET name == escapeHtml(member.name)
        detail == IF member.detail # <<>> THEN escapeHtml(member.detail) ELSE <<>>
        doc == IF member.documentation # <<>> THEN member.documentation
               ELSE NoDocumentation
        modulePath == escapeHtml(member.modulePath)
    IN  [title |-> name,
         h1 |-> name,
         module |-> modulePath,
         signature |-> IF detail # <<>> THEN <<detail>> ELSE <<>>,
         docContent |-> stringify(doc)]

\* docPanel.webview.html is left as it is when the panel is open already
showOnlyInNewPanel(member) ==
    IF docPanel.open
    THEN [docPanel EXCEPT !.title = member.name]
    ELSE [open |-> TRUE, title |-> member.name, html |-> getDocumentationHtml(member)]

\* an open panel is revealed, or a panel is created; then its title and its
\* html are assigned
showMember(member) ==
    [open |-> TRUE, title |-> member.name, html |-> getDocumentationHtml(member)]

\* the type-explorer.showDocumentation command
ShowDocumentation(member) ==
    /\ docPanel' =
           IF member = NoArgument \/ member.kind # "member" THEN docPanel
           ELSE showMember(member)
    /\ argument' = member
    /\ op' = "showDocumentation"
    /\ UNCHANGED <<tree, packages>>

\* the user closes the panel: the onDidDispose listener runs
DisposePanel ==
    /\ docPanel.open
    /\ docPanel' = NoPanel
    /\ op' = "panelDisposed"
    /\ UNCHANGED <<tree, argument, packages>>

\* deactivate() disposes of the panel, if there is one
Deactivate ==
    /\ docPanel' = NoPanel
    /\ op' = "deactivate"
    /\ UNCHANGED <<tree, argument, packages>>

MemberNames == { <<"f">>, <<"<", "T", ">">>, <<"a", "&", QUOT>> }

MemberDetails == { <<>>, <<"(", ")", "=", ">", "T">> }

MemberDocumentations == { <<>>, <<"#", "\n", QUOT, "\\">> }

MemberModulePaths == { <<"m">>, <<"@", "s", "/", "n">> }

PanelMembers ==
    { MemberNode(name, detail, "Function", modulePath, documentation) :
        name \in MemberNames, detail \in MemberDetails,
        modulePath \in MemberModulePaths,
        documentation \in MemberDocumentations }

\* what the command is invoked with: a member row, a module row, nothing
PanelArguments ==
    PanelMembers \cup {ImportNode(<<"f">>, <<"m">>, FALSE, "d1", 0), NoArgument}

InitPanel ==
    /\ Quiet
    /\ NothingShown
    /\ NothingInstalled

NextPanel ==
    \/ \E member \in PanelArguments : ShowDocumentation(member)
    \/ DisposePanel
    \/ Deactivate

SpecPanel == InitPanel /\ [][NextPanel]_vars

\* C8: after type-explorer.showDocumentation is invoked with a member node, a
\* panel is open, its title is the member's name and its html is the document
\* built from that member; invoked with no argument or with a node that is no
\* member, the command leaves the panel as it is, open or not
C8_PanelShowsLastMember ==
    [][op' = "showDocumentation"
          => IF argument' # NoArgument /\ argument'.kind = "member"
             THEN /\ docPanel'.open
                  /\ docPanel'.title = argument'.name
                  /\ docPanel'.html.h1 = escapeHtml(argument'.name)
                  /\ docPanel'.html = getDocumentationHtml(argument')
             ELSE docPanel' = docPanel]_vars

C8_Witness ==
    /\ op = "showDocumentation"
    /\ argument = ImportNode(<<"f">>, <<"m">>, FALSE, "d1", 0)
    /\ docPanel.open
    /\ docPanel.title = <<"<", "T", ">">>
    /\ docPanel.html.h1 = <<"&", "l", "t", ";", "T", "&", "g", "t", ";">>

----------------------------------------------------------------------------
(* Further properties of the provider *)

\* C11: addPackage(p) changes nothing when manualPackages holds an entry with
\* module path p; otherwise it appends one entry for p, deletes the cache entry
\* of p and no other, and fires one event; manualPackages never holds two
\* entries with one module path
C11_AddPackageIdempotent ==
    /\ [](\A i, j \in 1..Len(manualPackages) :
             manualPackages[i].modulePath = manualPackages[j].modulePath => i = j)
    /\ [][\A p \in Paths :
            BrowsePackage(p)
                => IF p \in ModulePaths(manualPackages)
                   THEN /\ manualPackages' = manualPackages
                        /\ memberCache' = memberCache
                        /\ fired' = 0
                   ELSE /\ manualPackages' = Append(manualPackages, ManualNode(p))
                        /\ DOMAIN memberCache' = DOMAIN memberCache \ {p}
                        /\ \A k \in DOMAIN memberCache' : memberCache'[k] = memberCache[k]
                        /\ fired' = 1]_vars

C11_Witness ==
    /\ op = "browsePackage"
    /\ fired = 1
    /\ manualPackages = <<ManualNode("n"), ManualNode("m")>>
    /\ DOMAIN memberCache = {"n"}

\* the import declarations of the active document, by form, for a module path
Declarations(forms, modulePath) ==
    { k \in 1..Len(docs[activeTextEditor]) :
        /\ docs[activeTextEditor][k].form \in forms
        /\ docs[activeTextEditor][k].path = modulePath }

First(indices) == CHOOSE k \in indices : \A l \in indices : k <= l

\* the identifiers written in a statement between its braces, up to the first comma
FirstEntry(s) ==
    LET open == IndexOf(s.toks, P("{"), 1)
        close == IndexOf(s.toks, P("}"), 1)
        comma == IndexOf(s.toks, P(","), open + 1)
        stop == IF comma > 0 /\ comma < close THEN comma ELSE close
    IN  SelectSeq(SubSeq(s.toks, open + 1, stop - 1), LAMBDA t : t.k \in {"w", "i"})

\* the name a declaration gives its module: the default identifier, the alias of
\* a namespace import, else the local name of the first entry of the brace
\* list, else the module path
DeclaredName(s) ==
    IF s.form \in {"default", "defaultNamed"} THEN s.toks[3].v
    ELSE IF s.form = "namespace" THEN s.toks[7].v
    ELSE IF FirstEntry(s) # <<>> THEN FirstEntry(s)[Len(FirstEntry(s))].v
    ELSE s.path

\* C12: in the list returned for the root, a namespace import of a module path
\* determines the node of that path (isNamespace, named by the alias) wherever
\* it stands; without one the first default or named import of the path in
\* document order determines it; the node is the manually added package only
\* when the active document has no import of the path
C12_Precedence ==
    (op = "getChildrenRoot" /\ activeTextEditor # NoEditor)
        => \A i \in 1..Len(rootChildren) :
              LET node == rootChildren[i]
                  namespaces == Declarations({"namespace"}, node.modulePath)
                  standards ==
                      Declarations({"default", "named", "defaultNamed"}, node.modulePath)
                  types == Declarations({"type"}, node.modulePath)
              IN  /\ namespaces # {}
                        => /\ node.isNamespace
                           /\ \E k \in namespaces :
                                 node.name = DeclaredName(docs[activeTextEditor][k])
                  /\ (namespaces = {} /\ standards # {})
                        => /\ ~node.isNamespace
                           /\ node.name
                                 = DeclaredName(docs[activeTextEditor][First(standards)])
                  /\ node.isManuallyAdded
                        <=> (namespaces \cup standards \cup types = {})

\* C13: for a module path the active document imports through type-only
\* declarations alone, the node returned for the root is no namespace node and
\* is named by the first entry of the brace list of such a declaration (its
\* local alias, if it has one), or by the module path when the list is empty
C13_TypeOnlyName ==
    (op = "getChildrenRoot" /\ activeTextEditor # NoEditor)
        => \A i \in 1..Len(rootChildren) :
              LET node == rootChildren[i]
                  others ==
                      Declarations({"default", "named", "defaultNamed", "namespace", "bare"},
                                   node.modulePath)
                  types == Declarations({"type"}, node.modulePath)
              IN  (others = {} /\ types # {})
                      => /\ ~node.isNamespace
                         /\ \E k \in types :
                               node.name = DeclaredName(docs[activeTextEditor][k])

\* the step that has just been taken is one in which getChildren(node) returned
CallReturns ==
    /\ op' \in {"getChildrenModule", "completionReturned", "hoverReturned",
                "definitionReturned", "symbolsReturned", "requestThrew"}
    /\ call'.pc = "idle"
    /\ returned'.valid

\* the call received a completion response or a symbol response that lists something
BuiltFromResponse(r) ==
    \E i \in 1..Len(r.log) :
        /\ IsResponse(r.log[i], "completion") \/ IsResponse(r.log[i], "symbols")
        /\ ~NoneReturned(r.log[i])

\* a cache entry is written only by a call that received a non-empty completion
\* or symbol response, and it is the list the call returns
WritesWhatItReturns ==
    returned'.stored
        => /\ BuiltFromResponse(returned')
           /\ memberCache'
                  = CachePut(memberCache, returned'.node.modulePath, returned'.members)

\* C14 as stated: getChildren(node) writes a cache entry only when it returns a
\* list built from a non-empty completion or symbol response, and writes the
\* list it returns; every other outcome returns an empty list and leaves the
\* cache as it is
C14_CacheWrittenOnSuccessOnly ==
    [][CallReturns
          => /\ WritesWhatItReturns
             /\ ~returned'.stored
                   => (returned'.members = <<>> /\ memberCache' = memberCache)]_vars

\* C14 amended: the same, where the other outcomes of a call that found no
\* cache entry return an empty list; a call that found an entry returns it, and
\* no other outcome changes the cache
C14_CacheWrittenOnSuccessOnlyUnlessHit ==
    [][CallReturns
          => /\ WritesWhatItReturns
             /\ ~returned'.stored
                   => /\ memberCache' = memberCache
                      /\ ~returned'.hit => returned'.members = <<>>
                      /\ returned'.hit => returned'.members = returned'.entry]_vars

C14_Witness ==
    /\ op = "hoverReturned"
    /\ call.pc = "idle"
    /\ returned.valid /\ returned.stored
    /\ returned.members # <<>>
    /\ memberCache[returned.node.modulePath] = returned.members
    /\ \E i \in 1..Len(returned.log) : IsResponse(returned.log[i], "symbols")

\* refresh() was the handler that ran last, and it ran while a call of
\* getChildren(node) was awaiting a host response
RefreshedWhileAwaiting ==
    /\ op \in {"refresh", "activeEditorChanged", "activeDocumentChanged"}
    /\ call.pc # "idle"

\* C15: cache invalidation is not undone by a resolution in flight: when
\* refresh() has run while the resolution of module path p was awaiting a host
\* response, the member cache holds no entry for p once that resolution has
\* completed (the call read the document before the refresh, and no other call
\* ran since)
C15_RefreshNotUndone ==
    [][(RefreshedWhileAwaiting /\ CallReturns)
          => returned'.node.modulePath \notin DOMAIN memberCache']_vars

====
